---- MODULE Spec2Model ----
(***************************************************************************)
(* Model of the FMP MCP server: the tool facade (fmp_mcp_server.py) and    *)
(* the normalization adapter behind it (api.py).                           *)
(*                                                                         *)
(* Python values are modelled as follows.                                  *)
(*   str     a sequence of one-character strings, so that <, <= are the    *)
(*           code-point-wise lexicographic comparison Python performs      *)
(*   dict    a function whose DOMAIN is the set of keys present            *)
(*   None / number / str stored in a dict: a tagged value (NullV, Num, Str)*)
(*   date    a proleptic Gregorian ordinal (datetime.toordinal)            *)
(***************************************************************************)
EXTENDS Integers, Sequences, FiniteSets, TLC

\* Longest list an upstream endpoint returns in the model.
MaxRecords == 2

(***************************************************************************)
(* Strings                                                                 *)
(***************************************************************************)

\* The characters the model's strings are made of, in code-point order:
\* '-' (45) < '0'..'9' (48..57) < 'A' (65) < 'M' (77) < 'x' (120).
CharOrder == <<"-", "0", "1", "2", "3", "4", "5", "6", "7", "8", "9", "A", "M", "x">>

Ord(c) == CHOOSE i \in 1..Len(CharOrder) : CharOrder[i] = c

IsDigit(c) == Ord(c) \in 2..11

DigitVal(c) == Ord(c) - 2

DigitChar(d) == CharOrder[d + 2]

Min(a, b) == IF a <= b THEN a ELSE b

\* Python's  a < b  on str: the first differing character decides, and a
\* proper prefix is smaller.
StrLess(a, b) ==
    \E i \in 1..(Min(Len(a), Len(b)) + 1) :
        /\ \A j \in 1..(i - 1) : a[j] = b[j]
        /\ \/ i > Len(a) /\ i <= Len(b)
           \/ i <= Len(a) /\ i <= Len(b) /\ Ord(a[i]) < Ord(b[i])

\* Python's  a <= b  on str.
StrLE(a, b) == a = b \/ StrLess(a, b)

AllDigits(s) == \A i \in 1..Len(s) : IsDigit(s[i])

RECURSIVE DigitsVal(_)
DigitsVal(s) ==
    IF s = <<>> THEN 0
    ELSE 10 * DigitsVal(SubSeq(s, 1, Len(s) - 1)) + DigitVal(s[Len(s)])

(***************************************************************************)
(* Calendar arithmetic: datetime ordinals, strftime and strptime with the  *)
(* format "%Y-%m-%d", timedelta(days = n).                                 *)
(***************************************************************************)

IsLeap(y) == y % 4 = 0 /\ (y % 100 # 0 \/ y % 400 = 0)

DaysInMonth(y, m) ==
    IF m = 2 THEN (IF IsLeap(y) THEN 29 ELSE 28)
    ELSE IF m \in {4, 6, 9, 11} THEN 30 ELSE 31

RECURSIVE DaysBeforeMonth(_, _)
DaysBeforeMonth(y, m) ==
    IF m = 1 THEN 0 ELSE DaysBeforeMonth(y, m - 1) + DaysInMonth(y, m - 1)

DaysBeforeYear(y) ==
    LET p == y - 1 IN 365 * p + (p \div 4) - (p \div 100) + (p \div 400)

\* date(y, m, d).toordinal()
Ymd2Ord(y, m, d) == DaysBeforeYear(y) + DaysBeforeMonth(y, m) + d

\* date.fromordinal(n) as [y, m, d]
Ord2Ymd(n) ==
    LET n0   == n - 1
        n400 == n0 \div 146097
        r400 == n0 % 146097
        n100 == r400 \div 36524
        r100 == r400 % 36524
        n4   == r100 \div 1461
        r4   == r100 % 1461
        n1   == r4 \div 365
        r1   == r4 % 365
        year == n400 * 400 + 1 + n100 * 100 + n4 * 4 + n1
    IN  IF n1 = 4 \/ n100 = 4
        THEN [y |-> year - 1, m |-> 12, d |-> 31]
        ELSE LET m == CHOOSE k \in 1..12 :
                          /\ DaysBeforeMonth(year, k) <= r1
                          /\ r1 < DaysBeforeMonth(year, k) + DaysInMonth(year, k)
             IN  [y |-> year, m |-> m, d |-> r1 - DaysBeforeMonth(year, m) + 1]

Pad2(n) == <<DigitChar(n \div 10), DigitChar(n % 10)>>

Pad4(n) == Pad2(n \div 100) \o Pad2(n % 100)

\* datetime.strftime("%Y-%m-%d") of the date with ordinal n.
Strftime(n) ==
    LET c == Ord2Ymd(n) IN Pad4(c.y) \o <<"-">> \o Pad2(c.m) \o <<"-">> \o Pad2(c.d)

\* datetime.strptime(s, "%Y-%m-%d"): four digits of year, then a month and a
\* day of one or two digits, separated by '-'; anything else, a month outside
\* 1..12 or a day the month does not have raises ValueError.
Strptime(s) ==
    LET bad == [ok |-> FALSE, ord |-> 0]
        n   == Len(s)
    IN  IF n < 8 \/ n > 10 \/ ~AllDigits(SubSeq(s, 1, 4)) \/ s[5] # "-"
        THEN bad
        ELSE LET ps == {p \in 7..8 : p < n /\ s[p] = "-" /\ (p = 7 \/ s[7] # "-")}
             IN  IF ps = {} THEN bad
                 ELSE LET p  == CHOOSE q \in ps : TRUE
                          ms == SubSeq(s, 6, p - 1)
                          ds == SubSeq(s, p + 1, n)
                          y  == DigitsVal(SubSeq(s, 1, 4))
                          m  == DigitsVal(ms)
                          d  == DigitsVal(ds)
                      IN  IF /\ AllDigits(ms) /\ AllDigits(ds)
                             /\ Len(ds) \in 1..2
                             /\ y >= 1
                             /\ m \in 1..12
                             /\ d >= 1 /\ d <= DaysInMonth(y, m)
                          THEN [ok |-> TRUE, ord |-> Ymd2Ord(y, m, d)]
                          ELSE bad

(***************************************************************************)
(* Python values held in dicts and optional arguments                      *)
(***************************************************************************)

NullV == [t |-> "null", n |-> 0, s |-> <<>>]

Num(x) == [t |-> "num", n |-> x, s |-> <<>>]

Str(cs) == [t |-> "str", n |-> 0, s |-> cs]

\* dict.get(k, default): the default only when the key is absent.
Get(item, k, default) == IF k \in DOMAIN item THEN item[k] ELSE default

\* Python truthiness of an Optional[str]:  not v  for None and for "".
Falsy(v) == v.t = "null" \/ (v.t = "str" /\ v.s = <<>>)

\* str.lower() on the indicator names of the model.
Lower(name) == CASE name = "RSI" -> "rsi" [] name = "SMA" -> "sma" [] OTHER -> name

Ok(x) == [ok |-> TRUE, err |-> "", val |-> x]

Raise(e) == [ok |-> FALSE, err |-> e, val |-> <<>>]

\* A numeric literal over the model's characters: digits, optionally signed.
IsNumeric(cs) ==
    \/ cs # <<>> /\ AllDigits(cs)
    \/ Len(cs) >= 2 /\ cs[1] = "-" /\ AllDigits(Tail(cs))

NumericVal(cs) == IF cs[1] = "-" THEN 0 - DigitsVal(Tail(cs)) ELSE DigitsVal(cs)

\* float(v): a number as it is, a numeric string parsed, anything else raises.
FloatOf(v) ==
    CASE v.t = "num" -> Ok(v.n)
      [] v.t = "str" -> IF IsNumeric(v.s) THEN Ok(NumericVal(v.s)) ELSE Raise("ValueError")
      [] OTHER       -> Raise("TypeError")

\* pydantic fields of the output models: a required str takes only a str, a
\* required float or int takes a number or a numeric string, an Optional
\* field also takes None.
StrField(v) == IF v.t = "str" THEN Ok(v.s) ELSE Raise("ValidationError")

NumField(v) ==
    IF v.t = "num" \/ (v.t = "str" /\ IsNumeric(v.s))
    THEN FloatOf(v) ELSE Raise("ValidationError")

OptNumField(v) == IF v.t = "null" THEN Ok(NullV) ELSE
                  IF NumField(v).ok THEN Ok(Num(NumField(v).val)) ELSE Raise("ValidationError")

OptStrField(v) == IF v.t \in {"null", "str"} THEN Ok(v) ELSE Raise("ValidationError")

(***************************************************************************)
(* api.get_technical_indicator                                             *)
(***************************************************************************)

IndicatorLookbackDays == 100

\* ResolveIndicatorWindow with the default from_date counted back from today
\* instead of from to_date.
ResolveIndicatorWindowFromNow(from_arg, to_arg, now) ==
    LET to_date == IF Falsy(to_arg) THEN Strftime(now) ELSE to_arg.s
    IN  IF Falsy(from_arg)
        THEN IF Strptime(to_date).ok
             THEN Ok([from_date |-> Strftime(now - 100), to_date |-> to_date])
             ELSE Raise("ValueError")
        ELSE Ok([from_date |-> from_arg.s, to_date |-> to_date])

\* Lines 47-53: the indicator date window. to_date defaults to today;
\* from_date defaults to to_date - 100 days, parsing to_date (which raises
\* ValueError when to_date was supplied and does not parse).
ResolveIndicatorWindow(from_arg, to_arg, now) ==
    LET to_date == IF Falsy(to_arg) THEN Strftime(now) ELSE to_arg.s
    IN  IF Falsy(from_arg)
        THEN LET parsed == Strptime(to_date)
             IN  IF parsed.ok
                 THEN Ok([from_date |-> Strftime(parsed.ord - IndicatorLookbackDays),
                          to_date   |-> to_date])
                 ELSE Raise("ValueError")
        ELSE Ok([from_date |-> from_arg.s, to_date |-> to_date])

\* ResolveValue with a record that has no candidate key kept, as value None.
ResolveValueKeylessZero(item, indicator) ==
    IF Lower(indicator) \in DOMAIN item
    THEN [skip |-> FALSE, value |-> item[Lower(indicator)]]
    ELSE LET fallback_keys == <<"value", indicator, "indicator_value">>
             present == {i \in 1..Len(fallback_keys) : fallback_keys[i] \in DOMAIN item}
             first   == CHOOSE i \in present : \A j \in present : i <= j
         IN  IF present = {} THEN [skip |-> FALSE, value |-> NullV]
             ELSE [skip |-> item[fallback_keys[first]] = NullV,
                   value |-> item[fallback_keys[first]]]

\* ResolveValue with the fallback keys tried in the opposite order.
ResolveValueLastFallback(item, indicator) ==
    IF Lower(indicator) \in DOMAIN item
    THEN [skip |-> FALSE, value |-> item[Lower(indicator)]]
    ELSE LET fallback_keys == <<"indicator_value", indicator, "value">>
             present == {i \in 1..Len(fallback_keys) : fallback_keys[i] \in DOMAIN item}
             first   == CHOOSE i \in present : \A j \in present : i <= j
             value   == IF present = {} THEN NullV ELSE item[fallback_keys[first]]
         IN  [skip |-> value = NullV, value |-> value]

\* ResolveValue going on to the next fallback key after one that holds None.
ResolveValueNextFallback(item, indicator) ==
    IF Lower(indicator) \in DOMAIN item
    THEN [skip |-> FALSE, value |-> item[Lower(indicator)]]
    ELSE LET fallback_keys == <<"value", indicator, "indicator_value">>
             present == {i \in 1..Len(fallback_keys) :
                            /\ fallback_keys[i] \in DOMAIN item
                            /\ item[fallback_keys[i]] # NullV}
             first   == CHOOSE i \in present : \A j \in present : i <= j
             value   == IF present = {} THEN NullV ELSE item[fallback_keys[first]]
         IN  [skip |-> value = NullV, value |-> value]

\* Lines 65-78: the value of one raw record. skip = TRUE is the  continue.
ResolveValue(item, indicator) ==
    IF Lower(indicator) \in DOMAIN item
    THEN [skip |-> FALSE, value |-> item[Lower(indicator)]]
    ELSE LET fallback_keys == <<"value", indicator, "indicator_value">>
             present == {i \in 1..Len(fallback_keys) : fallback_keys[i] \in DOMAIN item}
             first   == CHOOSE i \in present : \A j \in present : i <= j
             value   == IF present = {} THEN NullV ELSE item[fallback_keys[first]]
         IN  [skip |-> value = NullV, value |-> value]

\* Lines 80-83: IndicatorValue(date = item.get('date', ''), value = float(value)
\* or 0.0 for None). float raises first, then the model's validation.
IndicatorPoint(item, value) ==
    LET f == IF value # NullV THEN FloatOf(value) ELSE Ok(0)
        d == StrField(Get(item, "date", Str(<<>>)))
    IN  IF ~f.ok THEN Raise(f.err)
        ELSE IF ~d.ok THEN Raise(d.err)
        ELSE Ok([date |-> d.val, value |-> f.val])

\* Lines 63-83: the loop over raw_data; the first exception ends it.
RECURSIVE ConvertIndicator(_, _, _)
ConvertIndicator(raw_data, indicator, values) ==
    IF raw_data = <<>> THEN Ok(values)
    ELSE LET item == Head(raw_data)
             r    == ResolveValue(item, indicator)
         IN  IF r.skip THEN ConvertIndicator(Tail(raw_data), indicator, values)
             ELSE LET pt == IndicatorPoint(item, r.value)
                  IN  IF ~pt.ok THEN Raise(pt.err)
                      ELSE ConvertIndicator(Tail(raw_data), indicator, Append(values, pt.val))

\* FilterByDate without the upper bound.
RECURSIVE FilterByDateNoUpper(_, _, _)
FilterByDateNoUpper(values, from_date, to_date) ==
    IF values = <<>> THEN <<>>
    ELSE LET v    == Head(values)
             rest == FilterByDateNoUpper(Tail(values), from_date, to_date)
         IN  IF StrLE(from_date, v.date) THEN <<v>> \o rest ELSE rest

\* FilterByDate building its list back to front.
RECURSIVE FilterByDateReversed(_, _, _)
FilterByDateReversed(values, from_date, to_date) ==
    IF values = <<>> THEN <<>>
    ELSE LET v    == Head(values)
             rest == FilterByDateReversed(Tail(values), from_date, to_date)
         IN  IF StrLE(from_date, v.date) /\ StrLE(v.date, to_date)
             THEN rest \o <<v>> ELSE rest

\* Line 86: [v for v in values if from_date <= v.date <= to_date]
RECURSIVE FilterByDate(_, _, _)
FilterByDate(values, from_date, to_date) ==
    IF values = <<>> THEN <<>>
    ELSE LET v    == Head(values)
             rest == FilterByDate(Tail(values), from_date, to_date)
         IN  IF StrLE(from_date, v.date) /\ StrLE(v.date, to_date)
             THEN <<v>> \o rest ELSE rest

\* Lines 62-93: what get_technical_indicator makes of the upstream records.
IndicatorResult(raw_data, symbol, indicator, time_period, w) ==
    LET c == ConvertIndicator(raw_data, indicator, <<>>)
    IN  IF ~c.ok THEN Raise(c.err)
        ELSE Ok([symbol |-> symbol, indicator |-> indicator,
                 time_period |-> time_period,
                 values |-> FilterByDate(c.val, w.from_date, w.to_date)])

(***************************************************************************)
(* api.get_eps_surprise and api.get_insider_trading                        *)
(***************************************************************************)

\* Lines 23-35: EarningsReport(...) of one raw record.
EarningsReportOf(item) ==
    LET symbol == StrField(Get(item, "symbol", NullV))
        date   == StrField(Get(item, "date", NullV))
        eps    == NumField(Get(item, "actualEarningResult", Num(0)))
        est    == NumField(Get(item, "estimatedEarning", Num(0)))
    IN  IF symbol.ok /\ date.ok /\ eps.ok /\ est.ok
        THEN Ok([symbol |-> symbol.val, date |-> date.val,
                 eps |-> eps.val, eps_estimated |-> est.val])
        ELSE Raise("ValidationError")

\* Lines 20-38: the loop of get_eps_surprise.
RECURSIVE ConvertEps(_, _)
ConvertEps(raw_data, result) ==
    IF raw_data = <<>> THEN Ok(result)
    ELSE LET report == EarningsReportOf(Head(raw_data))
         IN  IF ~report.ok THEN Raise(report.err)
             ELSE ConvertEps(Tail(raw_data), Append(result, report.val))

\* Lines 149-160: InsiderActivity(...) of one raw record.
InsiderActivityOf(item, symbol) ==
    LET sym    == StrField(Get(item, "symbol", Str(symbol)))
        type   == StrField(Get(item, "transactionType", Str(<<>>)))
        shares == NumField(Get(item, "acquistionOrDisposition", Num(0)))
        price  == OptNumField(Get(item, "price", NullV))
    IN  IF sym.ok /\ type.ok /\ shares.ok /\ price.ok
        THEN Ok([symbol |-> sym.val, transaction_type |-> type.val,
                 shares |-> shares.val, price |-> price.val])
        ELSE Raise("ValidationError")

\* Lines 147-163: the loop of get_insider_trading.
RECURSIVE ConvertInsider(_, _, _)
ConvertInsider(raw_data, symbol, result) ==
    IF raw_data = <<>> THEN Ok(result)
    ELSE LET activity == InsiderActivityOf(Head(raw_data), symbol)
         IN  IF ~activity.ok THEN Raise(activity.err)
             ELSE ConvertInsider(Tail(raw_data), symbol, Append(result, activity.val))

(***************************************************************************)
(* api.get_price_targets                                                   *)
(***************************************************************************)

\* An upstream answer of price_target_consensus: a list of records, or one
\* record (a dict) held as the only element of items.
ListOf(items) == [shape |-> "list", items |-> items]

DictOf(item) == [shape |-> "dict", items |-> <<item>>]

\* UnwrapConsensus taking the last element of a list.
UnwrapConsensusLast(raw_data) ==
    IF raw_data.shape = "list" /\ Len(raw_data.items) > 0
    THEN Ok(raw_data.items[Len(raw_data.items)])
    ELSE IF raw_data.shape = "dict" THEN Ok(raw_data.items[1])
    ELSE Raise("AttributeError")

\* UnwrapConsensus reading an empty list as a record without fields.
UnwrapConsensusEmptyRecord(raw_data) ==
    IF raw_data.shape = "list" /\ Len(raw_data.items) > 0 THEN Ok(raw_data.items[1])
    ELSE IF raw_data.shape = "dict" THEN Ok(raw_data.items[1])
    ELSE Ok(<<>>)

\* Lines 104-105: a non-empty list is replaced by its first element; a dict is
\* kept; on an empty list the  .get  of line 110 raises AttributeError.
UnwrapConsensus(raw_data) ==
    IF raw_data.shape = "list" /\ Len(raw_data.items) > 0 THEN Ok(raw_data.items[1])
    ELSE IF raw_data.shape = "dict" THEN Ok(raw_data.items[1])
    ELSE Raise("AttributeError")

\* ratings of an AnalystConsensus: None, or a list.
NoRatings == [some |-> FALSE, list |-> <<>>]

SomeRatings(list) == [some |-> TRUE, list |-> list]

\* Lines 108-116: AnalystConsensus(...) of the unwrapped record.
ConsensusOf(symbol, item) ==
    LET tc   == NumField(Get(item, "targetConsensus", Num(0)))
        th   == NumField(Get(item, "targetHigh", Num(0)))
        tl   == NumField(Get(item, "targetLow", Num(0)))
        n    == NumField(Get(item, "numberOfAnalysts", Num(0)))
        last == StrField(Get(item, "lastAnalystConsensusDate", Str(<<>>)))
        rc   == OptStrField(Get(item, "ratingConsensus", Str(<<>>)))
    IN  IF tc.ok /\ th.ok /\ tl.ok /\ n.ok /\ last.ok /\ rc.ok
        THEN Ok([symbol |-> symbol,
                 target_consensus |-> tc.val, target_high |-> th.val,
                 target_low |-> tl.val, number_of_analysts |-> n.val,
                 last_analyst_consensus_date |-> last.val,
                 rating_consensus |-> rc.val,
                 ratings |-> NoRatings])
        ELSE Raise("ValidationError")

\* Lines 100-116: from the upstream answer to the consensus without ratings.
BuildConsensus(symbol, raw_data) ==
    LET item == UnwrapConsensus(raw_data)
    IN  IF ~item.ok THEN Raise(item.err) ELSE ConsensusOf(symbol, item.val)

\* Lines 124-129: AnalystRating(...) of one raw record.
AnalystRatingOf(item) ==
    LET name   == OptStrField(Get(item, "analystName", Str(<<"x">>)))
        date   == StrField(Get(item, "date", Str(<<>>)))
        rating == StrField(Get(item, "rating", Str(<<>>)))
        pt     == NumField(Get(item, "priceTarget", Num(0)))
    IN  IF name.ok /\ date.ok /\ rating.ok /\ pt.ok
        THEN Ok([analyst_name |-> name.val, date |-> date.val,
                 rating |-> rating.val, price_target |-> pt.val])
        ELSE Raise("ValidationError")

\* Lines 121-129: the loop over analyst_data.
RECURSIVE ConvertRatings(_, _)
ConvertRatings(analyst_data, ratings) ==
    IF analyst_data = <<>> THEN Ok(ratings)
    ELSE LET r == AnalystRatingOf(Head(analyst_data))
         IN  IF ~r.ok THEN Raise(r.err)
             ELSE ConvertRatings(Tail(analyst_data), Append(ratings, r.val))

\* EnrichWithRatings without the inner try: a failure of fmp.price_target or
\* of the loop reaches the outer handler.
EnrichWithRatingsStrict(consensus, answer) ==
    IF ~answer.ok THEN Raise(answer.err)
    ELSE LET ratings == ConvertRatings(answer.val, <<>>)
         IN  IF ~ratings.ok THEN Raise(ratings.err)
             ELSE Ok([consensus EXCEPT !.ratings = SomeRatings(ratings.val)])

\* Lines 119-136: the inner try. answer is what fmp.price_target did: it
\* returned a list or raised. Any exception of the block, the call's or the
\* loop's, is caught by  except Exception: pass  and the consensus is returned
\* as it was built.
EnrichWithRatings(consensus, answer) ==
    IF ~answer.ok THEN Ok(consensus)
    ELSE LET ratings == ConvertRatings(answer.val, <<>>)
         IN  IF ~ratings.ok THEN Ok(consensus)
             ELSE Ok([consensus EXCEPT !.ratings = SomeRatings(ratings.val)])

(***************************************************************************)
(* api.get_earnings_calendar                                               *)
(***************************************************************************)

CalendarLookaheadDays == 30

\* ResolveCalendarWindow with the default from_date counted back from to_date.
ResolveCalendarWindowFromTo(from_arg, to_arg, now) ==
    LET to_date == IF Falsy(to_arg) THEN Strftime(now + 30) ELSE to_arg.s
    IN  [from_date |-> IF ~Falsy(from_arg) THEN from_arg.s
                       ELSE IF Strptime(to_date).ok
                       THEN Strftime(Strptime(to_date).ord - 30)
                       ELSE Strftime(now),
         to_date   |-> to_date]

\* Lines 172-177: the calendar date window; both defaults come from the
\* clock, neither from the other date. The two datetime.now() of one call
\* read the same day, now.
ResolveCalendarWindow(from_arg, to_arg, now) ==
    [from_date |-> IF Falsy(from_arg) THEN Strftime(now) ELSE from_arg.s,
     to_date   |-> IF Falsy(to_arg) THEN Strftime(now + CalendarLookaheadDays)
                   ELSE to_arg.s]

\* Lines 180-183: the endpoint the symbol argument selects.
CalendarEndpoint(symbol_arg) ==
    IF Falsy(symbol_arg) THEN "earnings_calendar" ELSE "earnings_calendar_confirmed"

\* OutsideWindow without the upper bound.
OutsideWindowLowerOnly(event_date, w) == StrLess(event_date, w.from_date)

\* Line 190: the  continue  test. Comparing None with a str raises TypeError.
OutsideWindow(event_date, w) ==
    StrLess(event_date, w.from_date) \/ StrLess(w.to_date, event_date)

\* Lines 193-203: EarningsCalendarEvent(...) of one raw record.
CalendarEventOf(item, event_date) ==
    LET symbol == StrField(Get(item, "symbol", Str(<<>>)))
        eps    == OptNumField(Get(item, "eps", NullV))
    IN  IF symbol.ok /\ eps.ok
        THEN Ok([symbol |-> symbol.val, date |-> event_date, eps |-> eps.val])
        ELSE Raise("ValidationError")

\* Lines 186-206: the loop of get_earnings_calendar.
RECURSIVE ConvertCalendar(_, _, _)
ConvertCalendar(raw_data, w, result) ==
    IF raw_data = <<>> THEN Ok(result)
    ELSE LET item       == Head(raw_data)
             event_date == Get(item, "date", Str(<<>>))
         IN  IF event_date.t # "str" THEN Raise("TypeError")
             ELSE IF OutsideWindow(event_date.s, w)
             THEN ConvertCalendar(Tail(raw_data), w, result)
             ELSE LET event == CalendarEventOf(item, event_date.s)
                  IN  IF ~event.ok THEN Raise(event.err)
                      ELSE ConvertCalendar(Tail(raw_data), w, Append(result, event.val))

(***************************************************************************)
(* fmp_mcp_server: the tool facade                                         *)
(***************************************************************************)

Tools == {"get_eps_surprise", "get_rsi", "get_sma", "get_price_targets",
          "get_insider_trading", "get_earnings_calendar"}

\* The text before str(e) in each tool's HTTPException detail.
Prefix(tool) ==
    CASE tool = "get_eps_surprise"      -> "Error fetching EPS surprise data: "
      [] tool = "get_rsi"               -> "Error fetching RSI data: "
      [] tool = "get_sma"               -> "Error fetching SMA data: "
      [] tool = "get_price_targets"     -> "Error fetching price target data: "
      [] tool = "get_insider_trading"   -> "Error fetching insider trading data: "
      [] tool = "get_earnings_calendar" -> "Error fetching earnings calendar data: "

NoOutcome == [kind |-> "none", status |-> 0, detail |-> <<>>, value |-> <<>>]

\* The tool returns what the adapter returned.
Returned(value) == [kind |-> "ok", status |-> 0, detail |-> <<>>, value |-> value]

\* FacadeError with a detail that leaves the exception's text out.
FacadeErrorNoCause(tool, err) ==
    [kind |-> "error", status |-> 500, detail |-> <<Prefix(tool)>>, value |-> <<>>]

\* except Exception as e: raise HTTPException(status_code=500,
\* detail=f"<prefix>{str(e)}"). The f-string is the sequence of its two parts.
FacadeError(tool, err) ==
    [kind |-> "error", status |-> 500, detail |-> <<Prefix(tool), err>>, value |-> <<>>]

\* The adapter called without the facade: its  raise  reaches the caller.
Raised(err) == [kind |-> "raised", status |-> 0, detail |-> <<err>>, value |-> <<>>]

\* What the caller of the invocation gets when the adapter raised err.
Failure(tool, err) == IF tool \in Tools THEN FacadeError(tool, err) ELSE Raised(err)

(***************************************************************************)
(* State: one record per invocation being served                           *)
(***************************************************************************)

VARIABLES
    pc,         \* pc[p]: "idle", "primary" (the handler waits for its first
                \* upstream call), "secondary" (get_price_targets waits for
                \* fmp.price_target), "done" (the response is ready)
    req,        \* req[p]: the tool or adapter function invoked and its arguments
    window,     \* window[p]: the resolved (from_date, to_date)
    primary,    \* primary[p]: what the first upstream call did
    secondary,  \* secondary[p]: what fmp.price_target did
    consensus,  \* consensus[p]: get_price_targets' consensus before enrichment
    out,        \* out[p]: the response of the invocation
    calls       \* calls[p]: the upstream endpoints called so far, in order

vars == <<pc, req, window, primary, secondary, consensus, out, calls>>

(***************************************************************************)
(* The environment: callers' arguments, the clock, the upstream provider   *)
(***************************************************************************)

Procs == {1}

\* The invocations of the server with two requests served at a time.
ConcProcs == {1, 2}

\* Two requests at a time are explored over fewer inputs than one alone.
Among(all, few) == IF Cardinality(DOMAIN pc) = 1 THEN all ELSE few

Date(y, m, d) == Strftime(Ymd2Ord(y, m, d))

Todays == Among({Ymd2Ord(2024, 3, 10), Ymd2Ord(2024, 3, 31)}, {Ymd2Ord(2024, 3, 10)})

Symbols == {<<"A">>}

UpstreamErrors == Among({"ConnectionError", "HTTP 401"}, {"ConnectionError"})

\* from_date arguments: omitted, empty, or a date.
FromArgs == Among({NullV, Str(<<>>), Str(Date(2024, 2, 1))}, {NullV})

\* to_date arguments: omitted, empty, a date, a date without zero padding,
\* a date that does not exist.
ToArgs ==
    Among({NullV, Str(<<>>), Str(Date(2024, 3, 1)),
           Str(<<"2", "0", "2", "4", "-", "3", "-", "1">>),
           Str(<<"2", "0", "2", "4", "-", "0", "2", "-", "3", "0">>)},
          {NullV, Str(Date(2024, 3, 1)),
           Str(<<"2", "0", "2", "4", "-", "0", "2", "-", "3", "0">>)})

CalendarToArgs ==
    Among({NullV, Str(<<>>), Str(Date(2024, 4, 1)),
           Str(<<"2", "0", "2", "4", "-", "4", "-", "1">>)},
          {NullV, Str(Date(2024, 3, 15))})

SymbolArgs == Among({NullV, Str(<<>>), Str(<<"A">>)}, {NullV})

\* Indicator names the adapter is called with directly, not through a tool.
DirectIndicators == {"RSI"}

SeqsUpTo(S) == UNION {[1..n -> S] : n \in 0..MaxRecords}

\* Raw technical-indicator records of indicator ind.
IndicatorItems(ind) ==
    LET L  == Lower(ind)
        D1 == Str(Date(2024, 2, 15))
        D2 == Str(Date(2024, 3, 5))
        D3 == Str(Date(2024, 1, 10))
        few == { ("date" :> D1) @@ (L :> Num(1)),
                 ("date" :> D2) @@ (L :> Num(2)) }
        all ==
        { ("date" :> D1) @@ (L :> Num(1)),
          ("date" :> D2) @@ (L :> Num(2)),
          ("date" :> D3) @@ (L :> Num(3)),
          (L :> Num(4)),
          ("date" :> D1),
          ("date" :> D1) @@ ("value" :> Num(5)) @@ ("indicator_value" :> Num(6)),
          ("date" :> D1) @@ (L :> NullV),
          ("date" :> D1) @@ ("value" :> NullV) @@ ("indicator_value" :> Num(7)),
          ("date" :> D2) @@ (L :> Str(<<"5", "5">>)),
          ("date" :> D1) @@ (L :> Num(8)) @@ ("value" :> Num(9)),
          ("date" :> NullV) @@ (L :> Num(10)),
          ("date" :> D1) @@ (L :> Str(<<"x">>)) }
        \cup
        (IF L = ind THEN {}
         ELSE { ("date" :> D1) @@ (ind :> Num(11)) @@ ("indicator_value" :> Num(12)),
                ("date" :> D1) @@ ("value" :> Num(13)) @@ (ind :> Num(14)),
                ("date" :> D1) @@ (ind :> Num(15)) })
    IN  Among(all, few)

EpsItems ==
    Among(
       { ("symbol" :> Str(<<"A">>)) @@ ("date" :> Str(Date(2024, 2, 1)))
            @@ ("actualEarningResult" :> Num(3)) @@ ("estimatedEarning" :> Num(2)),
         ("symbol" :> Str(<<"A">>)) @@ ("date" :> Str(Date(2023, 11, 2))),
         ("date" :> Str(Date(2024, 2, 1))) @@ ("actualEarningResult" :> Num(3)) },
       { ("symbol" :> Str(<<"A">>)) @@ ("date" :> Str(Date(2024, 2, 1)))
            @@ ("actualEarningResult" :> Num(3)) @@ ("estimatedEarning" :> Num(2)) })

InsiderItems ==
    Among(
       { ("symbol" :> Str(<<"M">>)) @@ ("transactionType" :> Str(<<"x">>))
            @@ ("acquistionOrDisposition" :> Num(1)) @@ ("price" :> Num(7)),
         ("price" :> NullV),
         ("symbol" :> Str(<<"A">>)) @@ ("acquistionOrDisposition" :> Str(<<"A">>)) },
       { ("symbol" :> Str(<<"M">>)) @@ ("transactionType" :> Str(<<"x">>))
            @@ ("acquistionOrDisposition" :> Num(1)) @@ ("price" :> Num(7)) })

ConsensusItems ==
    Among(
       { ("targetConsensus" :> Num(100)) @@ ("targetHigh" :> Num(120))
            @@ ("targetLow" :> Num(80)) @@ ("numberOfAnalysts" :> Num(10))
            @@ ("lastAnalystConsensusDate" :> Str(Date(2024, 3, 1)))
            @@ ("ratingConsensus" :> Str(<<"A">>)),
         ("targetConsensus" :> Num(200)) @@ ("targetHigh" :> Num(220))
            @@ ("targetLow" :> Num(180)) @@ ("numberOfAnalysts" :> Num(20))
            @@ ("lastAnalystConsensusDate" :> Str(Date(2024, 2, 1)))
            @@ ("ratingConsensus" :> Str(<<"M">>)),
         ("targetHigh" :> Num(320)),
         ("targetConsensus" :> NullV) @@ ("targetHigh" :> Num(420)) },
       { ("targetConsensus" :> Num(100)) @@ ("targetHigh" :> Num(120))
            @@ ("targetLow" :> Num(80)) @@ ("numberOfAnalysts" :> Num(10))
            @@ ("lastAnalystConsensusDate" :> Str(Date(2024, 3, 1)))
            @@ ("ratingConsensus" :> Str(<<"A">>)) })

RatingItems ==
    Among(
       { ("analystName" :> Str(<<"M">>)) @@ ("date" :> Str(Date(2024, 2, 15)))
            @@ ("rating" :> Str(<<"A">>)) @@ ("priceTarget" :> Num(150)),
         ("priceTarget" :> Str(<<"9", "0">>)),
         ("date" :> NullV) @@ ("priceTarget" :> Num(50)) },
       { ("analystName" :> Str(<<"M">>)) @@ ("date" :> Str(Date(2024, 2, 15)))
            @@ ("rating" :> Str(<<"A">>)) @@ ("priceTarget" :> Num(150)) })

CalendarItems ==
    Among(
       { ("symbol" :> Str(<<"A">>)) @@ ("date" :> Str(Date(2024, 3, 20))) @@ ("eps" :> Num(1)),
         ("symbol" :> Str(<<"M">>)) @@ ("date" :> Str(Date(2024, 1, 1))),
         ("symbol" :> Str(<<"A">>)) @@ ("date" :> Str(Date(2024, 5, 1))),
         ("symbol" :> Str(<<"M">>)) @@ ("date" :> Str(Date(2024, 3, 31))),
         ("symbol" :> Str(<<"A">>)),
         ("symbol" :> Str(<<"A">>)) @@ ("date" :> NullV),
         ("symbol" :> NullV) @@ ("date" :> Str(Date(2024, 3, 20))) },
       { ("symbol" :> Str(<<"A">>)) @@ ("date" :> Str(Date(2024, 3, 20)))
            @@ ("eps" :> Num(1)) })

NoRequest ==
    [tool |-> "none", indicator |-> "", time_period |-> 0, symbol |-> <<>>,
     symbol_arg |-> NullV, from_date |-> NullV, to_date |-> NullV, now |-> 0]

NoWindow == [from_date |-> <<>>, to_date |-> <<>>]

NoAnswer == [ok |-> FALSE, err |-> "none", val |-> <<>>]

Init ==
    /\ pc = [p \in Procs |-> "idle"]
    /\ req = [p \in Procs |-> NoRequest]
    /\ window = [p \in Procs |-> NoWindow]
    /\ primary = [p \in Procs |-> NoAnswer]
    /\ secondary = [p \in Procs |-> NoAnswer]
    /\ consensus = [p \in Procs |-> <<>>]
    /\ out = [p \in Procs |-> NoOutcome]
    /\ calls = [p \in Procs |-> <<>>]

\* CallUpstream keeping the resolved window in one place for all invocations.
CallUpstreamSharedWindow(p, r, w, endpoint) ==
    /\ pc[p] = "idle"
    /\ pc' = [pc EXCEPT ![p] = "primary"]
    /\ req' = [req EXCEPT ![p] = r]
    /\ window' = [q \in DOMAIN window |-> w]
    /\ calls' = [calls EXCEPT ![p] = <<endpoint>>]
    /\ UNCHANGED <<primary, secondary, consensus, out>>

\* The handler of request r starts and blocks in its first upstream call.
CallUpstream(p, r, w, endpoint) ==
    /\ pc[p] = "idle"
    /\ pc' = [pc EXCEPT ![p] = "primary"]
    /\ req' = [req EXCEPT ![p] = r]
    /\ window' = [window EXCEPT ![p] = w]
    /\ calls' = [calls EXCEPT ![p] = <<endpoint>>]
    /\ UNCHANGED <<primary, secondary, consensus, out>>

\* The handler of request r ends with an exception before any upstream call.
FailEarly(p, r, err) ==
    /\ pc[p] = "idle"
    /\ pc' = [pc EXCEPT ![p] = "done"]
    /\ req' = [req EXCEPT ![p] = r]
    /\ out' = [out EXCEPT ![p] = Failure(r.tool, err)]
    /\ UNCHANGED <<window, primary, secondary, consensus, calls>>

\* The handler ends: the adapter returned (res.ok) or raised.
Finish(p, res) ==
    /\ pc' = [pc EXCEPT ![p] = "done"]
    /\ out' = [out EXCEPT ![p] = IF res.ok THEN Returned(res.val)
                                 ELSE Failure(req[p].tool, res.err)]

(***************************************************************************)
(* The tools, up to the first upstream call                                *)
(***************************************************************************)

\* fmp_mcp_server.get_eps_surprise -> api.get_eps_surprise, line 17.
GetEpsSurprise(p) ==
    /\ pc[p] = "idle"
    /\ \E symbol \in Symbols :
        CallUpstream(p, [NoRequest EXCEPT !.tool = "get_eps_surprise", !.symbol = symbol],
                     NoWindow, "earnings_surprises")

\* api.get_technical_indicator, lines 47-60. now is what datetime.now() reads.
StartIndicator(p, tool, indicator, time_period) ==
    \E symbol \in Symbols, from_date \in FromArgs, to_date \in ToArgs, now \in Todays :
        LET r == [NoRequest EXCEPT !.tool = tool, !.indicator = indicator,
                                   !.time_period = time_period,
                                   !.symbol = symbol, !.from_date = from_date,
                                   !.to_date = to_date, !.now = now]
            w == ResolveIndicatorWindow(from_date, to_date, now)
        IN  IF w.ok THEN CallUpstream(p, r, w.val, "technical_indicators")
            ELSE FailEarly(p, r, w.err)

\* fmp_mcp_server.get_rsi, with its default time_period.
GetRsi(p) ==
    /\ pc[p] = "idle"
    /\ StartIndicator(p, "get_rsi", "rsi", 14)

\* fmp_mcp_server.get_sma, with its default time_period.
GetSma(p) ==
    /\ pc[p] = "idle"
    /\ StartIndicator(p, "get_sma", "sma", 20)

\* api.get_technical_indicator called by another caller than the two tools.
ApiGetTechnicalIndicator(p) ==
    /\ pc[p] = "idle"
    /\ \E indicator \in DirectIndicators :
        StartIndicator(p, "api.get_technical_indicator", indicator, 14)

\* fmp_mcp_server.get_price_targets -> api.get_price_targets, line 101.
GetPriceTargets(p) ==
    /\ pc[p] = "idle"
    /\ \E symbol \in Symbols :
        CallUpstream(p, [NoRequest EXCEPT !.tool = "get_price_targets", !.symbol = symbol],
                     NoWindow, "price_target_consensus")

\* fmp_mcp_server.get_insider_trading -> api.get_insider_trading, line 144.
\* page and limit only pass through to the provider.
GetInsiderTrading(p) ==
    /\ pc[p] = "idle"
    /\ \E symbol \in Symbols :
        CallUpstream(p, [NoRequest EXCEPT !.tool = "get_insider_trading", !.symbol = symbol],
                     NoWindow, "insider_trading")

\* fmp_mcp_server.get_earnings_calendar -> api.get_earnings_calendar,
\* lines 172-183.
GetEarningsCalendar(p) ==
    /\ pc[p] = "idle"
    /\ \E from_date \in FromArgs, to_date \in CalendarToArgs,
          symbol_arg \in SymbolArgs, now \in Todays :
        CallUpstream(p, [NoRequest EXCEPT !.tool = "get_earnings_calendar",
                                          !.symbol_arg = symbol_arg,
                                          !.from_date = from_date,
                                          !.to_date = to_date, !.now = now],
                     ResolveCalendarWindow(from_date, to_date, now),
                     CalendarEndpoint(symbol_arg))

(***************************************************************************)
(* The upstream provider answers, and the handler runs on                  *)
(***************************************************************************)

\* The lists the endpoint of request r may return.
PrimaryAnswers(r) ==
    CASE r.tool = "get_eps_surprise"      -> SeqsUpTo(EpsItems)
      [] r.tool = "get_price_targets"     ->
             {ListOf(l) : l \in SeqsUpTo(ConsensusItems)}
                \cup {DictOf(i) : i \in ConsensusItems}
      [] r.tool = "get_insider_trading"   -> SeqsUpTo(InsiderItems)
      [] r.tool = "get_earnings_calendar" -> SeqsUpTo(CalendarItems)
      [] OTHER                            -> SeqsUpTo(IndicatorItems(r.indicator))

\* What the adapter function of request r makes of raw_data, the answer of
\* its first upstream call (for get_price_targets: the consensus alone).
Normalize(r, w, raw_data) ==
    CASE r.tool = "get_eps_surprise"      -> ConvertEps(raw_data, <<>>)
      [] r.tool = "get_price_targets"     -> BuildConsensus(r.symbol, raw_data)
      [] r.tool = "get_insider_trading"   -> ConvertInsider(raw_data, r.symbol, <<>>)
      [] r.tool = "get_earnings_calendar" -> ConvertCalendar(raw_data, w, <<>>)
      [] OTHER -> IndicatorResult(raw_data, r.symbol, r.indicator, r.time_period, w)

\* The first upstream call returns raw_data.
PrimaryReturns(p) ==
    /\ pc[p] = "primary"
    /\ \E raw_data \in PrimaryAnswers(req[p]) :
        LET res == Normalize(req[p], window[p], raw_data)
        IN  /\ primary' = [primary EXCEPT ![p] = Ok(raw_data)]
            /\ IF req[p].tool = "get_price_targets" /\ res.ok
               THEN \* line 120: the second upstream call
                    /\ pc' = [pc EXCEPT ![p] = "secondary"]
                    /\ consensus' = [consensus EXCEPT ![p] = res.val]
                    /\ calls' = [calls EXCEPT ![p] = Append(@, "price_target")]
                    /\ UNCHANGED out
               ELSE /\ Finish(p, res)
                    /\ UNCHANGED <<consensus, calls>>
    /\ UNCHANGED <<req, window, secondary>>

\* PrimaryRaises with one more attempt at the endpoint after a first failure.
PrimaryRaisesRetry(p) ==
    /\ pc[p] = "primary"
    /\ \E err \in UpstreamErrors :
        /\ primary' = [primary EXCEPT ![p] = Raise(err)]
        /\ IF Len(calls[p]) < 2
           THEN /\ calls' = [calls EXCEPT ![p] = Append(@, @[1])]
                /\ UNCHANGED <<pc, out>>
           ELSE /\ Finish(p, Raise(err))
                /\ UNCHANGED calls
    /\ UNCHANGED <<req, window, secondary, consensus>>

\* The first upstream call raises: the adapter logs and re-raises.
PrimaryRaises(p) ==
    /\ pc[p] = "primary"
    /\ \E err \in UpstreamErrors :
        /\ primary' = [primary EXCEPT ![p] = Raise(err)]
        /\ Finish(p, Raise(err))
    /\ UNCHANGED <<req, window, secondary, consensus, calls>>

\* fmp.price_target returns analyst_data.
SecondaryReturns(p) ==
    /\ pc[p] = "secondary"
    /\ \E analyst_data \in SeqsUpTo(RatingItems) :
        /\ secondary' = [secondary EXCEPT ![p] = Ok(analyst_data)]
        /\ Finish(p, EnrichWithRatings(consensus[p], Ok(analyst_data)))
    /\ UNCHANGED <<req, window, primary, consensus, calls>>

\* fmp.price_target raises.
SecondaryRaises(p) ==
    /\ pc[p] = "secondary"
    /\ \E err \in UpstreamErrors :
        /\ secondary' = [secondary EXCEPT ![p] = Raise(err)]
        /\ Finish(p, EnrichWithRatings(consensus[p], Raise(err)))
    /\ UNCHANGED <<req, window, primary, consensus, calls>>

\* The response is delivered; nothing of the invocation is kept.
Respond(p) ==
    /\ pc[p] = "done"
    /\ pc' = [pc EXCEPT ![p] = "idle"]
    /\ req' = [req EXCEPT ![p] = NoRequest]
    /\ window' = [window EXCEPT ![p] = NoWindow]
    /\ primary' = [primary EXCEPT ![p] = NoAnswer]
    /\ secondary' = [secondary EXCEPT ![p] = NoAnswer]
    /\ consensus' = [consensus EXCEPT ![p] = <<>>]
    /\ out' = [out EXCEPT ![p] = NoOutcome]
    /\ calls' = [calls EXCEPT ![p] = <<>>]

Next ==
    \E p \in Procs :
        \/ GetEpsSurprise(p)
        \/ GetRsi(p)
        \/ GetSma(p)
        \/ ApiGetTechnicalIndicator(p)
        \/ GetPriceTargets(p)
        \/ GetInsiderTrading(p)
        \/ GetEarningsCalendar(p)
        \/ PrimaryReturns(p)
        \/ PrimaryRaises(p)
        \/ SecondaryReturns(p)
        \/ SecondaryRaises(p)
        \/ Respond(p)

Spec == Init /\ [][Next]_vars

\* Two requests served at a time: the handlers hold no  await  and share no
\* variable, so whatever the server's scheduling, a handler's steps come
\* between the steps of the other in some order allowed here.
InitConc ==
    /\ pc = [p \in ConcProcs |-> "idle"]
    /\ req = [p \in ConcProcs |-> NoRequest]
    /\ window = [p \in ConcProcs |-> NoWindow]
    /\ primary = [p \in ConcProcs |-> NoAnswer]
    /\ secondary = [p \in ConcProcs |-> NoAnswer]
    /\ consensus = [p \in ConcProcs |-> <<>>]
    /\ out = [p \in ConcProcs |-> NoOutcome]
    /\ calls = [p \in ConcProcs |-> <<>>]

NextConc ==
    \E p \in ConcProcs :
        \/ GetEpsSurprise(p)
        \/ GetRsi(p)
        \/ GetSma(p)
        \/ ApiGetTechnicalIndicator(p)
        \/ GetPriceTargets(p)
        \/ GetInsiderTrading(p)
        \/ GetEarningsCalendar(p)
        \/ PrimaryReturns(p)
        \/ PrimaryRaises(p)
        \/ SecondaryReturns(p)
        \/ SecondaryRaises(p)
        \/ Respond(p)

SpecConc == InitConc /\ [][NextConc]_vars

(***************************************************************************)
(* Properties                                                              *)
(***************************************************************************)

IndicatorTools == {"get_rsi", "get_sma", "api.get_technical_indicator"}

\* Invocation p is a technical-indicator call that returned a series.
IndicatorReturned(p) ==
    /\ req[p].tool \in IndicatorTools
    /\ pc[p] = "done"
    /\ out[p].kind = "ok"

\* The date string of a raw record, "" when it has none.
DateOf(item) == Get(item, "date", Str(<<>>)).s

InWindow(d, w) == StrLE(w.from_date, d) /\ StrLE(d, w.to_date)

CandidateKeys(indicator) == <<Lower(indicator), "value", indicator, "indicator_value">>

Keyless(item, indicator) ==
    \A i \in 1..4 : CandidateKeys(indicator)[i] \notin DOMAIN item

\* C1: every point of a returned IndicatorSeries has a date d with
\* from_date <= d <= to_date, compared as strings, for the window the call
\* resolved.
C1_ValuesInWindow ==
    \A p \in Procs :
        IndicatorReturned(p) =>
            \A i \in 1..Len(out[p].value.values) :
                /\ StrLE(window[p].from_date, out[p].value.values[i].date)
                /\ StrLE(out[p].value.values[i].date, window[p].to_date)

\* A series was returned with a point in it while upstream also sent a
\* resolvable record dated after to_date and one dated before from_date.
C1_Witness ==
    \E p \in Procs :
        /\ IndicatorReturned(p)
        /\ Len(out[p].value.values) = 1
        /\ Len(primary[p].val) = 2
        /\ \A i \in 1..2 : ~Keyless(primary[p].val[i], req[p].indicator)
        /\ \E i \in 1..2 : StrLess(window[p].to_date, DateOf(primary[p].val[i]))

\* C2 as stated: a returned series is sorted ascending by date whatever the
\* order of the upstream records.
C2_SortedAscending ==
    \A p \in Procs :
        IndicatorReturned(p) =>
            \A i, j \in 1..Len(out[p].value.values) :
                i < j => StrLE(out[p].value.values[i].date, out[p].value.values[j].date)

\* Point v can have come from raw record item.
PointOf(v, item) ==
    /\ v.date = DateOf(item)
    /\ \E k \in DOMAIN item \ {"date"} :
          \/ item[k] = NullV /\ v.value = 0
          \/ FloatOf(item[k]).ok /\ v.value = FloatOf(item[k]).val

\* C2 amended: a returned series keeps the upstream order: its points come
\* from upstream records at strictly increasing positions. (It is sorted
\* ascending by date only when upstream sent the records so.)
C2_UpstreamOrderKept ==
    \A p \in Procs :
        IndicatorReturned(p) =>
            LET vs  == out[p].value.values
                raw == primary[p].val
            IN  \E f \in [1..Len(vs) -> 1..Len(raw)] :
                    /\ \A i, j \in 1..Len(vs) : i < j => f[i] < f[j]
                    /\ \A i \in 1..Len(vs) : PointOf(vs[i], raw[f[i]])

\* Upstream sent two in-window records newest first and both were returned.
C2_Witness ==
    \E p \in Procs :
        /\ IndicatorReturned(p)
        /\ Len(out[p].value.values) = 2
        /\ StrLess(out[p].value.values[2].date, out[p].value.values[1].date)
        /\ StrLess(DateOf(primary[p].val[2]), DateOf(primary[p].val[1]))

\* An indicator call that got past its date handling.
IndicatorWindowResolved(p) ==
    req[p].tool \in IndicatorTools /\ calls[p] # <<>>

\* C3: the indicator window. Without to_date, to_date is today's date;
\* without from_date, from_date is the date 100 days before to_date,
\* supplied or not; a supplied non-empty date is kept as it is.
C3_IndicatorWindow ==
    \A p \in Procs :
        IndicatorWindowResolved(p) =>
            /\ IF Falsy(req[p].to_date)
               THEN /\ Len(window[p].to_date) = 10
                    /\ Strptime(window[p].to_date) = [ok |-> TRUE, ord |-> req[p].now]
               ELSE window[p].to_date = req[p].to_date.s
            /\ IF Falsy(req[p].from_date)
               THEN /\ Len(window[p].from_date) = 10
                    /\ Strptime(window[p].from_date).ok
                    /\ Strptime(window[p].to_date).ok
                    /\ Strptime(window[p].from_date).ord + 100
                          = Strptime(window[p].to_date).ord
               ELSE window[p].from_date = req[p].from_date.s

\* to_date 2024-03-01 was supplied on 2024-03-31 without from_date, and
\* from_date became 2023-11-22.
C3_Witness ==
    \E p \in Procs :
        /\ IndicatorWindowResolved(p)
        /\ req[p].from_date = NullV
        /\ req[p].to_date = Str(Date(2024, 3, 1))
        /\ req[p].now = Ymd2Ord(2024, 3, 31)
        /\ window[p].from_date = Date(2023, 11, 22)

\* C4: the calendar window. Without to_date, to_date is today plus 30 days;
\* without from_date, from_date is today, whatever to_date is; a supplied
\* non-empty date is kept as it is.
C4_CalendarWindow ==
    \A p \in Procs :
        (req[p].tool = "get_earnings_calendar" /\ pc[p] # "idle") =>
            /\ IF Falsy(req[p].to_date)
               THEN /\ Len(window[p].to_date) = 10
                    /\ Strptime(window[p].to_date) = [ok |-> TRUE, ord |-> req[p].now + 30]
               ELSE window[p].to_date = req[p].to_date.s
            /\ IF Falsy(req[p].from_date)
               THEN /\ Len(window[p].from_date) = 10
                    /\ Strptime(window[p].from_date) = [ok |-> TRUE, ord |-> req[p].now]
               ELSE window[p].from_date = req[p].from_date.s

\* A calendar call of 2024-03-10 without dates: the window is
\* 2024-03-10 .. 2024-04-09.
C4_Witness ==
    \E p \in Procs :
        /\ req[p].tool = "get_earnings_calendar"
        /\ pc[p] = "primary"
        /\ req[p].from_date = NullV /\ req[p].to_date = NullV
        /\ req[p].now = Ymd2Ord(2024, 3, 10)
        /\ window[p] = [from_date |-> Date(2024, 3, 10), to_date |-> Date(2024, 4, 9)]

RemoveAt(s, i) == SubSeq(s, 1, i - 1) \o SubSeq(s, i + 1, Len(s))

\* A finished indicator call whose upstream call returned.
IndicatorDone(p) ==
    /\ req[p].tool \in IndicatorTools
    /\ pc[p] = "done"
    /\ primary[p].ok

\* C5: a raw record with none of the candidate keys produces no point and no
\* error: the call ends as it does on the same records without that one, and
\* with one point less than on the same records with a resolvable, in-range
\* record in its place.
C5_KeylessSkipped ==
    \A p \in Procs :
        IndicatorDone(p) =>
            LET raw == primary[p].val
                r   == req[p]
                w   == window[p]
            IN  \A i \in 1..Len(raw) :
                    Keyless(raw[i], r.indicator) =>
                        LET without  == IndicatorResult(RemoveAt(raw, i), r.symbol,
                                                        r.indicator, r.time_period, w)
                            good     == ("date" :> Str(w.from_date))
                                           @@ (Lower(r.indicator) :> Num(1))
                            replaced == IndicatorResult([raw EXCEPT ![i] = good], r.symbol,
                                                        r.indicator, r.time_period, w)
                        IN  /\ (out[p].kind = "ok") = without.ok
                            /\ out[p].kind = "ok" =>
                                  /\ out[p].value.values = without.val.values
                                  /\ StrLE(w.from_date, w.to_date) =>
                                        /\ replaced.ok
                                        /\ Len(replaced.val.values)
                                              = Len(out[p].value.values) + 1
                            /\ out[p].kind # "ok" =>
                                  out[p].detail = Failure(r.tool, without.err).detail

\* Upstream sent a record without any candidate key, in range, and another
\* record; the series holds the other record's point alone.
C5_Witness ==
    \E p \in Procs :
        /\ IndicatorReturned(p)
        /\ Len(primary[p].val) = 2
        /\ Keyless(primary[p].val[1], req[p].indicator)
        /\ InWindow(DateOf(primary[p].val[1]), window[p])
        /\ Len(out[p].value.values) = 1

\* The value under the first candidate key the record has.
TopValue(item, indicator) ==
    LET ks      == CandidateKeys(indicator)
        present == {i \in 1..4 : ks[i] \in DOMAIN item}
        first   == CHOOSE i \in present : \A j \in present : i <= j
    IN  item[ks[first]]

\* Point v is record item's date with the value under its first candidate key.
TopPoint(v, item, indicator) ==
    /\ ~Keyless(item, indicator)
    /\ v.date = DateOf(item)
    /\ LET tv == TopValue(item, indicator)
       IN  \/ tv = NullV /\ v.value = 0
           \/ tv # NullV /\ FloatOf(tv).ok /\ v.value = FloatOf(tv).val

\* C6: the value of a point is the one under the first present key among the
\* lower-cased indicator name, 'value', the indicator name as given and
\* 'indicator_value': every returned point is such a value of an upstream
\* record, and every in-window record whose first present key holds a value
\* has its point.
C6_FirstMatchWins ==
    \A p \in Procs :
        IndicatorReturned(p) =>
            LET vs  == out[p].value.values
                raw == primary[p].val
                ind == req[p].indicator
            IN  /\ \A i \in 1..Len(vs) :
                      \E j \in 1..Len(raw) : TopPoint(vs[i], raw[j], ind)
                /\ \A j \in 1..Len(raw) :
                      ( /\ ~Keyless(raw[j], ind)
                        /\ TopValue(raw[j], ind) # NullV
                        /\ InWindow(DateOf(raw[j]), window[p]) )
                      => \E i \in 1..Len(vs) : TopPoint(vs[i], raw[j], ind)

\* Called with "RSI", upstream sent a record with 'RSI' and 'indicator_value'
\* and one with 'value' and 'RSI'; the points hold the 'RSI' value of the first
\* and the 'value' value of the second.
C6_Witness ==
    \E p \in Procs :
        /\ IndicatorReturned(p)
        /\ req[p].indicator = "RSI"
        /\ Len(primary[p].val) = 2
        /\ DOMAIN primary[p].val[1] = {"date", "RSI", "indicator_value"}
        /\ DOMAIN primary[p].val[2] = {"date", "value", "RSI"}
        /\ Len(out[p].value.values) = 2
        /\ out[p].value.values[1].value = primary[p].val[1]["RSI"].n
        /\ out[p].value.values[2].value = primary[p].val[2]["value"].n

\* The consensus fields of c are those of raw record item, with the defaults
\* for what it lacks.
FieldsFrom(c, item) ==
    /\ c.target_consensus = NumField(Get(item, "targetConsensus", Num(0))).val
    /\ c.target_high = NumField(Get(item, "targetHigh", Num(0))).val
    /\ c.target_low = NumField(Get(item, "targetLow", Num(0))).val
    /\ c.number_of_analysts = NumField(Get(item, "numberOfAnalysts", Num(0))).val
    /\ c.last_analyst_consensus_date = Get(item, "lastAnalystConsensusDate", Str(<<>>)).s
    /\ c.rating_consensus = Get(item, "ratingConsensus", Str(<<>>))

\* fmp.price_target was called by invocation p and raised.
SecondaryFailed(p) ==
    /\ req[p].tool = "get_price_targets"
    /\ ~secondary[p].ok
    /\ secondary[p].err \in UpstreamErrors

\* C7: when the consensus call succeeded and fmp.price_target failed,
\* get_price_targets returns the consensus of the primary record with ratings
\* None; the call does not fail.
C7_SecondaryFailureTolerated ==
    \A p \in Procs :
        SecondaryFailed(p) =>
            /\ pc[p] = "done"
            /\ primary[p].ok
            /\ out[p].kind = "ok"
            /\ out[p].value.ratings = NoRatings
            /\ out[p].value.symbol = req[p].symbol
            /\ FieldsFrom(out[p].value, primary[p].val.items[1])

\* fmp.price_target raised after a consensus of 100 was built.
C7_Witness ==
    \E p \in Procs :
        /\ SecondaryFailed(p)
        /\ out[p].kind = "ok"
        /\ out[p].value.target_consensus = 100

\* The consensus call of invocation p returned a list of two or more records.
SeveralConsensusRecords(p) ==
    /\ req[p].tool = "get_price_targets"
    /\ primary[p].ok
    /\ primary[p].val.shape = "list"
    /\ Len(primary[p].val.items) >= 2

\* C8: when the consensus call returns two or more records, the consensus
\* fields are those of the first record.
C8_FirstRecordOnly ==
    \A p \in Procs :
        SeveralConsensusRecords(p) =>
            /\ pc[p] = "secondary" => FieldsFrom(consensus[p], primary[p].val.items[1])
            /\ (pc[p] = "done" /\ out[p].kind = "ok")
                  => FieldsFrom(out[p].value, primary[p].val.items[1])

\* Two records that differ in all six fields came, and a consensus was returned.
C8_Witness ==
    \E p \in Procs :
        /\ SeveralConsensusRecords(p)
        /\ pc[p] = "done" /\ out[p].kind = "ok"
        /\ LET a == primary[p].val.items[1]
               b == primary[p].val.items[2]
           IN  /\ DOMAIN a = DOMAIN b
               /\ Cardinality(DOMAIN a) = 6
               /\ \A k \in DOMAIN a : a[k] # b[k]

\* The first upstream call of invocation p raised.
PrimaryFailed(p) == ~primary[p].ok /\ primary[p].err \in UpstreamErrors

\* C9: a failure of the primary upstream call ends the call of any tool with
\* one error response of status 500 whose message contains the failure's
\* description, without result and without further upstream call; a tool
\* that returns a result after an upstream failure is get_price_targets
\* after a failure of fmp.price_target.
C9_PrimaryFailureSurfaced ==
    \A p \in Procs :
        req[p].tool \in Tools =>
            /\ PrimaryFailed(p) =>
                  /\ pc[p] = "done"
                  /\ out[p].kind = "error"
                  /\ out[p].status = 500
                  /\ \E i \in DOMAIN out[p].detail : out[p].detail[i] = primary[p].err
                  /\ out[p].value = <<>>
                  /\ Len(calls[p]) = 1
                  /\ secondary[p] = NoAnswer
            /\ (out[p].kind = "ok" /\ (PrimaryFailed(p) \/ SecondaryFailed(p)))
                  => /\ req[p].tool = "get_price_targets"
                     /\ ~PrimaryFailed(p)

\* get_insider_trading's upstream call raised "HTTP 401".
C9_Witness ==
    \E p \in Procs :
        /\ req[p].tool = "get_insider_trading"
        /\ PrimaryFailed(p)
        /\ out[p].detail = <<"Error fetching insider trading data: ", "HTTP 401">>

\* The upstream events of a calendar call that have a date inside the window.
EventsInside(raw, w) ==
    {j \in 1..Len(raw) : "date" \in DOMAIN raw[j] /\ InWindow(raw[j]["date"].s, w)}

\* C10: a returned calendar holds the upstream events dated inside the
\* resolved window and no other: events dated outside it or without a date
\* are left out, with a symbol and without.
C10_CalendarInWindow ==
    \A p \in Procs :
        (req[p].tool = "get_earnings_calendar" /\ pc[p] = "done" /\ out[p].kind = "ok") =>
            LET raw == primary[p].val
                res == out[p].value
                w   == window[p]
            IN  /\ \A i \in 1..Len(res) :
                      /\ InWindow(res[i].date, w)
                      /\ \E j \in EventsInside(raw, w) :
                            /\ res[i].date = raw[j]["date"].s
                            /\ res[i].symbol = Get(raw[j], "symbol", Str(<<>>)).s
                /\ Len(res) = Cardinality(EventsInside(raw, w))

\* With symbol A and from_date 2024-02-01, the event of 2024-01-01 is left out
\* and the other event is returned.
C10_Witness ==
    \E p \in Procs :
        /\ req[p].tool = "get_earnings_calendar"
        /\ pc[p] = "done" /\ out[p].kind = "ok"
        /\ req[p].symbol_arg = Str(<<"A">>)
        /\ calls[p] = <<"earnings_calendar_confirmed">>
        /\ req[p].from_date = Str(Date(2024, 2, 1))
        /\ Len(primary[p].val) = 2
        /\ DateOf(primary[p].val[1]) = Date(2024, 1, 1)
        /\ Len(out[p].value) = 1
        /\ out[p].value[1].date = DateOf(primary[p].val[2])

\* The upstream calls of invocation p that were answered, by a return or by
\* an exception, and the one it waits for.
Answered(p) ==
    (IF primary[p] # NoAnswer THEN 1 ELSE 0) + (IF secondary[p] # NoAnswer THEN 1 ELSE 0)

Pending(p) == IF pc[p] \in {"primary", "secondary"} THEN 1 ELSE 0

\* C11: no retries. An invocation calls no endpoint twice: one primary call,
\* and for get_price_targets at most one call of fmp.price_target after it;
\* every call made was answered once or is the one awaited; an invocation
\* whose upstream call failed is over without another call.
C11_SingleAttempt ==
    \A p \in Procs :
        /\ Len(calls[p]) <= 2
        /\ \A i, j \in 1..Len(calls[p]) : i # j => calls[p][i] # calls[p][j]
        /\ Len(calls[p]) = 2 =>
              /\ req[p].tool = "get_price_targets"
              /\ calls[p] = <<"price_target_consensus", "price_target">>
        /\ Len(calls[p]) = Answered(p) + Pending(p)
        /\ PrimaryFailed(p) => (pc[p] = "done" /\ Len(calls[p]) = 1)
        /\ SecondaryFailed(p) => (pc[p] = "done" /\ Len(calls[p]) = 2)

\* fmp.price_target raised: the invocation is over after its two calls.
C11_Witness ==
    \E p \in Procs :
        /\ SecondaryFailed(p)
        /\ pc[p] = "done"
        /\ calls[p] = <<"price_target_consensus", "price_target">>

\* The tools that resolve a date window from from_date and to_date.
DateWindowTools == IndicatorTools \cup {"get_earnings_calendar"}

\* C12: the date window resolver has no error conditions. An indicator or
\* calendar call never ends in the date handling: whatever the from_date and
\* to_date strings, the call reaches its upstream endpoint, so an error
\* response repeats a failure of the upstream call or of the conversion.
C12_NoDateErrors ==
    \A p \in Procs :
        (req[p].tool \in DateWindowTools /\ pc[p] = "done") =>
            /\ calls[p] # <<>>
            /\ primary[p] # NoAnswer

\* The consensus call of invocation p returned an empty list.
EmptyConsensusList(p) ==
    /\ req[p].tool = "get_price_targets"
    /\ primary[p].ok
    /\ primary[p].val = ListOf(<<>>)

\* C14: when the consensus call returns an empty list, get_price_targets
\* ends with an error response that carries the AttributeError of the field
\* lookup, returns no consensus of defaults, and fmp.price_target is never
\* called.
C14_EmptyListFails ==
    \A p \in Procs :
        EmptyConsensusList(p) =>
            /\ pc[p] = "done"
            /\ out[p].kind = "error"
            /\ out[p].status = 500
            /\ out[p].detail = <<Prefix("get_price_targets"), "AttributeError">>
            /\ calls[p] = <<"price_target_consensus">>
            /\ secondary[p] = NoAnswer

\* The empty list came and the invocation is over.
C14_Witness ==
    \E p \in Procs :
        /\ EmptyConsensusList(p)
        /\ pc[p] = "done"
        /\ out[p].kind = "error"

\* The record has the lower-cased indicator key, and None under it.
NullAtKey(item, indicator) ==
    /\ Lower(indicator) \in DOMAIN item
    /\ item[Lower(indicator)] = NullV

\* The record lacks the lower-cased indicator key and holds None under the
\* first fallback key it has.
NullAtFallback(item, indicator) ==
    /\ Lower(indicator) \notin DOMAIN item
    /\ ~Keyless(item, indicator)
    /\ TopValue(item, indicator) = NullV

\* Some fallback key of the record holds a number.
NumericFallback(item, indicator) ==
    \E i \in 2..4 :
        /\ CandidateKeys(indicator)[i] \in DOMAIN item
        /\ item[CandidateKeys(indicator)[i]].t = "num"

\* C15: null values in indicator resolution. A record with None under the
\* lower-cased indicator key gives, when its date is in the window, one
\* point of value 0 at its place; a record without that key whose first
\* present fallback key holds None gives no point and no error, whatever
\* the later fallback keys hold.
C15_NullAsymmetry ==
    \A p \in Procs :
        IndicatorDone(p) =>
            LET raw == primary[p].val
                r   == req[p]
                w   == window[p]
            IN  \A i \in 1..Len(raw) :
                    LET without == IndicatorResult(RemoveAt(raw, i), r.symbol,
                                                   r.indicator, r.time_period, w)
                        d       == DateOf(raw[i])
                    IN  /\ NullAtFallback(raw[i], r.indicator) =>
                              /\ (out[p].kind = "ok") = without.ok
                              /\ out[p].kind = "ok" =>
                                    out[p].value.values = without.val.values
                        /\ ( /\ NullAtKey(raw[i], r.indicator)
                             /\ out[p].kind = "ok"
                             /\ InWindow(d, w) ) =>
                              /\ without.ok
                              /\ Len(out[p].value.values) = Len(without.val.values) + 1
                              /\ \E k \in 1..Len(out[p].value.values) :
                                    /\ out[p].value.values[k] = [date |-> d, value |-> 0]
                                    /\ RemoveAt(out[p].value.values, k) = without.val.values

\* Upstream sent a record with None under the indicator key and a record
\* with None under "value" and a number under "indicator_value", both dated
\* in the window: the series is the single point of value 0.
C15_Witness ==
    \E p \in Procs :
        /\ IndicatorReturned(p)
        /\ Len(primary[p].val) = 2
        /\ NullAtKey(primary[p].val[1], req[p].indicator)
        /\ NullAtFallback(primary[p].val[2], req[p].indicator)
        /\ NumericFallback(primary[p].val[2], req[p].indicator)
        /\ \A i \in 1..2 : InWindow(DateOf(primary[p].val[i]), window[p])
        /\ out[p].value.values = <<[date |-> DateOf(primary[p].val[1]), value |-> 0]>>

\* The window a call with request r resolves from its own arguments and clock.
OwnWindow(r) ==
    IF r.tool \in IndicatorTools
    THEN ResolveIndicatorWindow(r.from_date, r.to_date, r.now)
    ELSE IF r.tool = "get_earnings_calendar"
    THEN Ok(ResolveCalendarWindow(r.from_date, r.to_date, r.now))
    ELSE Ok(NoWindow)

\* The response of a call with request r served alone, its upstream calls
\* answering prim and sec.
AloneOutcome(r, prim, sec) ==
    LET w == OwnWindow(r)
    IN  IF ~w.ok THEN Failure(r.tool, w.err)
        ELSE IF ~prim.ok THEN Failure(r.tool, prim.err)
        ELSE LET res  == Normalize(r, w.val, prim.val)
                 last == IF r.tool = "get_price_targets" /\ res.ok
                         THEN EnrichWithRatings(res.val, sec)
                         ELSE res
             IN  IF last.ok THEN Returned(last.val) ELSE Failure(r.tool, last.err)

SameOutcome(a, b) ==
    /\ a.kind = b.kind
    /\ a.status = b.status
    /\ a.detail = b.detail
    /\ a.kind = "ok" => a.value = b.value

\* C13: invocations are independent. With two invocations served at a time,
\* in any interleaving of their steps, the response of each is the response
\* it has when served alone with the same arguments, clock reading and
\* upstream answers, whatever the other invocation does or fails with; what
\* is kept for an invocation between its steps comes from its own request
\* and answers, and nothing is kept for an invocation that is not being
\* served.
C13_Independent ==
    \A p \in ConcProcs :
        /\ pc[p] = "done" =>
              SameOutcome(out[p], AloneOutcome(req[p], primary[p], secondary[p]))
        /\ calls[p] # <<>> => window[p] = OwnWindow(req[p]).val
        /\ pc[p] = "secondary" =>
              consensus[p] = BuildConsensus(req[p].symbol, primary[p].val).val
        /\ pc[p] = "idle" =>
              /\ req[p] = NoRequest /\ window[p] = NoWindow
              /\ primary[p] = NoAnswer /\ secondary[p] = NoAnswer
              /\ out[p] = NoOutcome /\ calls[p] = <<>>

\* Two indicator calls with different windows were served together: the
\* upstream call of one failed, the other returned a series with a point.
C13_Witness ==
    \E p, q \in ConcProcs :
        /\ p # q
        /\ req[p].tool \in IndicatorTools /\ req[q].tool \in IndicatorTools
        /\ pc[p] = "done" /\ pc[q] = "done"
        /\ ~primary[p].ok /\ primary[p] # NoAnswer
        /\ out[p].kind = "error"
        /\ window[p] # window[q]
        /\ out[q].kind = "ok"
        /\ Len(out[q].value.values) >= 1
        /\ Len(out[q].value.values) < Len(primary[q].val)

====
